---- MODULE Spec2Model ----
(***************************************************************************)
(* travel-log-genius: the top-level page (Index), the consent page, the    *)
(* sign-in page and the trip form with its parent dashboard, as a state    *)
(* machine over the React state of each component, the backend client's    *)
(* session and tables, and the asynchronous flows in flight.               *)
(*                                                                         *)
(* An await in the source is a point where the flow is suspended: the      *)
(* part of a handler before its first await, and each continuation after   *)
(* an await, is one action.  A component that is not rendered is           *)
(* unmounted: its state is lost and the next mount starts from the         *)
(* useState initial values, while an async flow it started continues       *)
(* (its closures still hold the parent's setters).                         *)
(***************************************************************************)
EXTENDS Integers, Sequences, FiniteSets, TLC

\* ------------------------------------------------------------ bounds
\* consent submissions that may be in flight at once (mounted + orphaned)
MaxConsentFlows == 2

\* ------------------------------------------------------------ values
NoUser == "null"
Users == {"u1", "u2"}
Views == {"user", "scientist"}
Dashboards == {"UserDashboard", "ResearchDashboard"}
\* events of supabase.auth.onAuthStateChange seen by the handler
Events == {"INITIAL_SESSION", "SIGNED_IN", "SIGNED_OUT", "TOKEN_REFRESHED"}
\* error.message of a backend error value (a string, possibly empty)
ErrMessages == {"", "backend says no"}
NoNotice == [title |-> "", description |-> ""]
Toast(t, d) == [title |-> t, description |-> d]

\* a consent flow's position: awaiting getUser, or awaiting the upsert for uid
Idle == [pc |-> "idle", uid |-> NoUser]
AtGetUser == [pc |-> "getUser", uid |-> NoUser]
AtUpsert(u) == [pc |-> "upsert", uid |-> u]
ConsentStages == {AtGetUser} \cup {AtUpsert(u) : u \in Users}
UpsertOutcomes == {"ok", "42P01", "error", "throw"}

\* handleSignup's position
SignupIdle == [pc |-> "idle", uid |-> NoUser, confirmed |-> FALSE]

\* ------------------------------------------------------------ trips
\* trip.X || null
Null == "NULL"
\* TripForm's initial state, and the state handleSubmit resets it to
EmptyTrip ==
    [trip_number |-> "", origin |-> "", destination |-> "", mode |-> "",
     start_time |-> "", end_time |-> "", companions |-> ""]

VARIABLES
    session,        \* backend client: the current session's user, or NoUser
    isLoading,      \* Index
    user,           \* Index
    hasConsented,   \* Index
    currentView,    \* Index
    sessionQuery,   \* the getSession call in flight: "startup", "authSuccess", "none"
    authBusy,       \* AuthPage.isLoading of the mounted AuthPage
    loginPc,        \* handleLogin: "idle" | "signIn"
    signupPc,       \* handleSignup: SignupIdle, or the await it is suspended at
    logouts,        \* handleLogout calls awaiting signOut (of either dashboard)
    profiles,       \* backend table 'profiles': user id -> "none" | "false" | "true"
    consent,        \* ConsentPage.consent (the checkbox) of the mounted ConsentPage
    consentBusy,    \* ConsentPage.isLoading of the mounted ConsentPage
    consentPc,      \* handleSubmit of the mounted ConsentPage: Idle or a stage
    orphanConsent,  \* handleSubmit flows whose ConsentPage was unmounted: stage -> count
    signedOutFrom,  \* history: screen on which the last SIGNED_OUT arrived, until a user lands
    signOutPending, \* history: a SIGNED_OUT arrived and only Loading was rendered since
    lastOp,         \* history: the handler or continuation that ran last
    notice,         \* the toast raised by the last step (NoNotice if none)
    showForm,       \* Dashboard.showForm
    trip,           \* TripForm.trip: the state last given to the TripForm
    tripBusy,       \* TripForm.isLoading
    tripFlows,      \* TripForm.handleSubmit flows in flight, oldest first
    tripsTable,     \* backend table 'trips': the rows in insertion order
    fetches,        \* Dashboard.fetchTrips flows in flight, oldest first
    dashTrips,      \* Dashboard.trips: the ids (row numbers) of the listed trips
    dashLoading,    \* Dashboard.isLoading
    rTrips,         \* ScientistDashboard.trips
    filteredTrips,  \* ScientistDashboard.filteredTrips
    searchTerm,     \* ScientistDashboard.searchTerm
    modeFilter,     \* ScientistDashboard.modeFilter
    rLoading,       \* ScientistDashboard.isLoading
    rFetch,         \* fetchAllTrips of the mount effect: "idle" | "select" | "done"
    csv,            \* the text of the file last downloaded by exportData, or NoFile
    swCache,        \* service worker: 'travel-log-cache', url -> response or NoResponse
    swFlows         \* service worker: fetch events being handled, oldest first

sessVars == <<session, isLoading, user, hasConsented, currentView, sessionQuery,
              authBusy, loginPc, signupPc, logouts, profiles, consent, consentBusy, consentPc, orphanConsent,
              signedOutFrom, signOutPending>>
tripVars == <<showForm, trip, tripBusy, tripFlows, tripsTable, fetches, dashTrips,
              dashLoading>>
researchVars == <<rTrips, filteredTrips, searchTerm, modeFilter, rLoading, rFetch, csv>>
swVars == <<swCache, swFlows>>
vars == <<sessVars, tripVars, researchVars, swVars, lastOp, notice>>

Op(name, arg, out) == [op |-> name, arg |-> arg, out |-> out]

\* ------------------------------------------------------------ Index
\* mutant of Render: the consent screen no longer requires a user
RenderNoUserCheck(l, u, h, v) ==
    IF l THEN "Loading"
    ELSE IF ~h THEN "ConsentPending"
    ELSE IF u = NoUser THEN "Unauthenticated"
    ELSE IF v = "user" THEN "UserDashboard" ELSE "ResearchDashboard"

Render(l, u, h, v) ==
    IF l THEN "Loading"
    ELSE IF u = NoUser THEN "Unauthenticated"
    ELSE IF ~h THEN "ConsentPending"
    ELSE IF v = "user" THEN "UserDashboard" ELSE "ResearchDashboard"

Screen == Render(isLoading, user, hasConsented, currentView)
NewScreen == Render(isLoading', user', hasConsented', currentView')

\* setUser(session?.user ?? null)
SessionUser(s) == s

\* mutant of AuthChangeConsented: the flag survives a sign-out
AuthChangeKeepsConsent(event, h) == h

\* if (event === 'SIGNED_OUT') setHasConsented(false)
AuthChangeConsented(event, h) == IF event = "SIGNED_OUT" THEN FALSE ELSE h

\* ------------------------------------------------------------ mounting
BagAdd(bag, st) == [bag EXCEPT ![st] = @ + 1]
BagDel(bag, st) == [bag EXCEPT ![st] = @ - 1]
BagSize(bag) == bag[AtGetUser] + bag[AtUpsert("u1")] + bag[AtUpsert("u2")]
ConsentInFlight == BagSize(orphanConsent) + (IF consentPc = Idle THEN 0 ELSE 1)

\* The ConsentPage after a step that left it with (c, b, pc) and the orphans
\* bag: kept while the consent screen is rendered, else unmounted.
ConsentPageAfter(c, b, pc, bag) ==
    IF NewScreen = "ConsentPending"
    THEN /\ consent' = c
         /\ consentBusy' = b
         /\ consentPc' = pc
         /\ orphanConsent' = bag
    ELSE /\ consent' = FALSE
         /\ consentBusy' = FALSE
         /\ consentPc' = Idle
         /\ orphanConsent' = IF pc = Idle THEN bag ELSE BagAdd(bag, pc)

ConsentPageKept == ConsentPageAfter(consent, consentBusy, consentPc, orphanConsent)

\* The AuthPage's busy flag after a step that left it at b.
AuthPageAfter(b) ==
    authBusy' = IF NewScreen = "Unauthenticated" THEN b ELSE FALSE

\* history of the step
Log(name, arg, out, n) ==
    /\ lastOp' = Op(name, arg, out)
    /\ notice' = n

\* a step of the page, the sign-in page or the consent page: the user
\* dashboard's state is not touched
SLog(name, arg, out, n) ==
    /\ Log(name, arg, out, n)
    /\ UNCHANGED <<tripVars, researchVars, swVars>>

LandedKeep ==
    /\ signedOutFrom' = IF NewScreen \in Dashboards \cup {"ConsentPending"}
                        THEN "none" ELSE signedOutFrom
    /\ signOutPending' = (signOutPending /\ NewScreen = "Loading")

\* the service worker's cache: one entry per URL (no Vary header is modelled)
ListingUrl == "/rest/v1/trips?select=*&user_id=eq.u1&order=created_at.desc"
SwUrls == {"/index.html", ListingUrl}
NoResponse == [ok |-> FALSE, body |-> "none"]
\* no service worker controls the page: nothing is cached, no event is handled
NoWorker ==
    /\ swCache = [url \in SwUrls |-> NoResponse]
    /\ swFlows = <<>>

\* the ScientistDashboard's useState initial values; its fetchAllTrips is at f
NoFile == <<"no file">>
ResearchMounted(f) ==
    /\ rTrips = <<>>
    /\ filteredTrips = <<>>
    /\ searchTerm = ""
    /\ modeFilter = "all"
    /\ rLoading = TRUE
    /\ rFetch = f
    /\ csv = NoFile

\* ------------------------------------------------------------ Init
Init ==
    /\ session \in Users \cup {NoUser}
    /\ isLoading = TRUE
    /\ user = NoUser
    /\ hasConsented = FALSE
    /\ currentView = "user"
    /\ sessionQuery = "startup"
    /\ authBusy = FALSE
    /\ loginPc = "idle"
    /\ signupPc = SignupIdle
    /\ logouts = 0
    /\ profiles = [u \in Users |-> "none"]
    /\ consent = FALSE
    /\ consentBusy = FALSE
    /\ consentPc = Idle
    /\ orphanConsent = [st \in ConsentStages |-> 0]
    /\ signedOutFrom = "none"
    /\ signOutPending = FALSE
    /\ lastOp = Op("mount", "", "")
    /\ notice = NoNotice
    /\ showForm = FALSE
    /\ trip = EmptyTrip
    /\ tripBusy = FALSE
    /\ tripFlows = <<>>
    /\ tripsTable = <<>>
    /\ fetches = <<>>
    /\ dashTrips = <<>>
    /\ dashLoading = TRUE
    /\ ResearchMounted("idle")
    /\ NoWorker

\* ------------------------------------------------------------ Index actions
\* getSession resolves: the startup query (.then) or onAuthSuccess's await
GetSessionResolve ==
    /\ sessionQuery # "none"
    /\ user' = SessionUser(session)
    /\ isLoading' = FALSE
    /\ sessionQuery' = "none"
    /\ UNCHANGED <<session, hasConsented, currentView, loginPc, signupPc, logouts, profiles>>
    /\ AuthPageAfter(authBusy)
    /\ ConsentPageKept
    /\ LandedKeep
    /\ SLog("getSession", sessionQuery, session, NoNotice)

\* the onAuthStateChange handler.  The backend client reports SIGNED_OUT with
\* a null session (the session has ended); every other event carries the
\* client's current session.
AuthStateChange(event) ==
    /\ event # "SIGNED_OUT" /\ event # "INITIAL_SESSION" => session # NoUser
    /\ session' = IF event = "SIGNED_OUT" THEN NoUser ELSE session
    /\ user' = SessionUser(session')
    /\ hasConsented' = AuthChangeConsented(event, hasConsented)
    /\ UNCHANGED <<isLoading, currentView, sessionQuery, loginPc, signupPc, logouts, profiles>>
    /\ AuthPageAfter(authBusy)
    /\ ConsentPageKept
    /\ signedOutFrom' = IF event = "SIGNED_OUT" THEN Screen
                        ELSE IF NewScreen \in Dashboards \cup {"ConsentPending"}
                        THEN "none" ELSE signedOutFrom
    /\ signOutPending' = ((signOutPending \/ event = "SIGNED_OUT") /\ NewScreen = "Loading")
    /\ SLog("authChange", event, Screen, NoNotice)

\* mutant of SetView: only the research view can be chosen
SetViewOneWay(v) ==
    /\ Screen \in Dashboards
    /\ v = "scientist"
    /\ currentView' = v
    /\ UNCHANGED <<session, isLoading, user, hasConsented, sessionQuery, loginPc, signupPc, logouts, profiles>>
    /\ AuthPageAfter(authBusy)
    /\ ConsentPageKept
    /\ LandedKeep
    /\ SLog("setView", v, Screen, NoNotice)

\* Navigation: onViewChange(v)
SetView(v) ==
    /\ Screen \in Dashboards
    /\ currentView' = v
    /\ UNCHANGED <<session, isLoading, user, hasConsented, sessionQuery, loginPc, signupPc, logouts, profiles>>
    /\ AuthPageAfter(authBusy)
    /\ ConsentPageKept
    /\ LandedKeep
    /\ SLog("setView", v, Screen, NoNotice)

IndexNext ==
    \/ GetSessionResolve
    \/ \E event \in Events : AuthStateChange(event)
    \/ \E v \in Views : SetView(v)

\* ------------------------------------------------------------ AuthPage
\* handleLogin up to its await of signInWithPassword
LoginSubmit ==
    /\ Screen = "Unauthenticated"
    /\ ~authBusy
    /\ loginPc' = "signIn"
    /\ UNCHANGED <<session, isLoading, user, hasConsented, currentView, sessionQuery,
                   signupPc, logouts, profiles>>
    /\ AuthPageAfter(TRUE)
    /\ ConsentPageKept
    /\ LandedKeep
    /\ SLog("login", "submit", "", NoNotice)

\* signInWithPassword returned an error value
LoginError(msg) ==
    /\ loginPc = "signIn"
    /\ loginPc' = "idle"
    /\ UNCHANGED <<session, isLoading, user, hasConsented, currentView, sessionQuery,
                   signupPc, logouts, profiles>>
    /\ AuthPageAfter(FALSE)
    /\ ConsentPageKept
    /\ LandedKeep
    /\ SLog("login", "error", msg, Toast("Login Failed", msg))

\* signInWithPassword threw
LoginThrow ==
    /\ loginPc = "signIn"
    /\ loginPc' = "idle"
    /\ UNCHANGED <<session, isLoading, user, hasConsented, currentView, sessionQuery,
                   signupPc, logouts, profiles>>
    /\ AuthPageAfter(FALSE)
    /\ ConsentPageKept
    /\ LandedKeep
    /\ SLog("login", "throw", "", Toast("Error", "An unexpected error occurred."))

\* signInWithPassword succeeded for u: the backend client holds u's session,
\* and onAuthSuccess() runs up to its await of getSession
LoginOk(u) ==
    /\ loginPc = "signIn"
    /\ loginPc' = "idle"
    /\ session' = u
    /\ isLoading' = TRUE
    /\ sessionQuery' = "authSuccess"
    /\ UNCHANGED <<user, hasConsented, currentView, signupPc, logouts, profiles>>
    /\ AuthPageAfter(FALSE)
    /\ ConsentPageKept
    /\ LandedKeep
    /\ SLog("login", "ok", u, Toast("Welcome Back!", "Successfully logged in."))

AuthNext ==
    \/ LoginSubmit
    \/ \E msg \in ErrMessages : LoginError(msg)
    \/ LoginThrow
    \/ \E u \in Users : LoginOk(u)

\* ------------------------------------------------------------ ConsentPage
\* onConsentGiven = () => setHasConsented(true)
OnConsentGiven == TRUE

\* mutant of UpsertProceeds: an upsert error other than 42P01 blocks access
UpsertProceedsUnlessError(out) == out # "error"

\* after the upsert returned (with or without an error value) or threw,
\* does the flow go on to onConsentGiven()?
UpsertProceeds(out) == TRUE

\* onCheckedChange
SetConsent(checked) ==
    /\ Screen = "ConsentPending"
    /\ UNCHANGED <<session, isLoading, user, hasConsented, currentView, sessionQuery, loginPc, signupPc, logouts, profiles>>
    /\ AuthPageAfter(authBusy)
    /\ ConsentPageAfter(checked, consentBusy, consentPc, orphanConsent)
    /\ LandedKeep
    /\ SLog("setConsent", "", "", NoNotice)

\* handleSubmit up to its await of getUser (the button is disabled while
\* !consent || isLoading)
ConsentSubmit ==
    /\ Screen = "ConsentPending"
    /\ consent
    /\ ~consentBusy
    /\ ConsentInFlight < MaxConsentFlows
    /\ UNCHANGED <<session, isLoading, user, hasConsented, currentView, sessionQuery, loginPc, signupPc, logouts, profiles>>
    /\ AuthPageAfter(authBusy)
    /\ ConsentPageAfter(consent, TRUE, AtGetUser, orphanConsent)
    /\ LandedKeep
    /\ SLog("consent", "submit", "", NoNotice)

\* A consent flow at stage st moves to stage nxt (Idle: it ended), and the
\* Index's flag is set to h.  mounted: the flow of the mounted ConsentPage,
\* whose finally block lowers that page's isLoading; otherwise an orphan.
ConsentStep(mounted, st, nxt, h) ==
    /\ IF mounted THEN consentPc = st ELSE orphanConsent[st] > 0
    /\ hasConsented' = h
    /\ UNCHANGED <<session, isLoading, user, currentView, sessionQuery, loginPc, signupPc, logouts>>
    /\ AuthPageAfter(authBusy)
    /\ IF mounted
       THEN ConsentPageAfter(consent, nxt # Idle, nxt, orphanConsent)
       ELSE ConsentPageAfter(consent, consentBusy, consentPc,
                IF nxt = Idle THEN BagDel(orphanConsent, st)
                ELSE BagAdd(BagDel(orphanConsent, st), nxt))
    /\ LandedKeep

\* getUser resolved: the session's user, or none (the lookup failed)
ConsentGetUser(mounted, u) ==
    /\ u \in {session, NoUser}
    /\ UNCHANGED profiles
    /\ IF u = NoUser
       THEN /\ ConsentStep(mounted, AtGetUser, Idle, hasConsented)
            /\ SLog("consent", "getUser", NoUser, Toast("Error", "Please login first."))
       ELSE /\ ConsentStep(mounted, AtGetUser, AtUpsert(u), hasConsented)
            /\ SLog("consent", "getUser", u, NoNotice)

\* getUser threw: the catch block calls onConsentGiven()
ConsentGetUserThrow(mounted) ==
    /\ ConsentStep(mounted, AtGetUser, Idle, OnConsentGiven)
    /\ UNCHANGED profiles
    /\ SLog("consent", "getUser", "throw", NoNotice)

\* mutant of ProfilesAfterUpsert: an upsert that fails leaves consent false
ProfilesAfterFailureCleared(p, u, out) ==
    IF out = "ok" THEN {[p EXCEPT ![u] = "true"]} ELSE {[p EXCEPT ![u] = "false"]}

\* the profiles table after upsert({ id: u, consent: true }) ended with out:
\* written when it succeeded, untouched when the backend refused it, either
\* when the call threw (the response was lost)
ProfilesAfterUpsert(p, u, out) ==
    CASE out = "ok" -> {[p EXCEPT ![u] = "true"]}
      [] out = "throw" -> {p, [p EXCEPT ![u] = "true"]}
      [] OTHER -> {p}

\* the upsert returned or threw
ConsentUpsert(mounted, u, out) ==
    /\ profiles' \in ProfilesAfterUpsert(profiles, u, out)
    /\ ConsentStep(mounted, AtUpsert(u), Idle,
                   IF UpsertProceeds(out) THEN OnConsentGiven ELSE hasConsented)
    /\ SLog("consent", "upsert", out,
           IF out # "throw" /\ UpsertProceeds(out)
           THEN Toast("Consent Recorded", "Thank you for participating in transportation research!")
           ELSE NoNotice)

ConsentNext ==
    \/ \E checked \in BOOLEAN : SetConsent(checked)
    \/ ConsentSubmit
    \/ \E mounted \in BOOLEAN, u \in Users \cup {NoUser} : ConsentGetUser(mounted, u)
    \/ \E mounted \in BOOLEAN : ConsentGetUserThrow(mounted)
    \/ \E mounted \in BOOLEAN, u \in Users, out \in UpsertOutcomes : ConsentUpsert(mounted, u, out)

Next == IndexNext \/ AuthNext \/ ConsentNext

Spec == Init /\ [][Next]_vars

\* ------------------------------------------------------------ AuthPage: sign-up
AtSignUp == [pc |-> "signUp", uid |-> NoUser, confirmed |-> FALSE]
AtProfileInsert(u, c) == [pc |-> "insertProfile", uid |-> u, confirmed |-> c]

\* a step of handleSignup that leaves the page's state at (l, q) for
\* isLoading and the getSession call in flight, the flow at pc, the AuthPage's
\* busy flag at b
SignupStep(pc, b, l, q) ==
    /\ signupPc' = pc
    /\ isLoading' = l
    /\ sessionQuery' = q
    /\ UNCHANGED <<user, hasConsented, currentView, loginPc, logouts>>
    /\ AuthPageAfter(b)
    /\ ConsentPageKept
    /\ LandedKeep

\* handleSignup with passwords that differ
SignupMismatch ==
    /\ Screen = "Unauthenticated"
    /\ ~authBusy
    /\ SignupStep(signupPc, authBusy, isLoading, sessionQuery)
    /\ UNCHANGED <<session, profiles>>
    /\ SLog("signup", "submit", "mismatch", Toast("Password Mismatch", "Passwords do not match."))

\* handleSignup up to its await of signUp
SignupSubmit ==
    /\ Screen = "Unauthenticated"
    /\ ~authBusy
    /\ signupPc = SignupIdle
    /\ SignupStep(AtSignUp, TRUE, isLoading, sessionQuery)
    /\ UNCHANGED <<session, profiles>>
    /\ SLog("signup", "submit", "", NoNotice)

\* signUp returned an error value
SignupError(msg) ==
    /\ signupPc = AtSignUp
    /\ SignupStep(SignupIdle, FALSE, isLoading, sessionQuery)
    /\ UNCHANGED <<session, profiles>>
    /\ SLog("signup", "error", msg, Toast("Signup Failed", msg))

\* signUp or the profile insert threw
SignupThrow ==
    /\ signupPc # SignupIdle
    /\ SignupStep(SignupIdle, FALSE, isLoading, sessionQuery)
    /\ UNCHANGED <<session, profiles>>
    /\ SLog("signup", "throw", "", Toast("Error", "An unexpected error occurred."))

\* signUp returned neither an error nor a user
SignupNoUser ==
    /\ signupPc = AtSignUp
    /\ SignupStep(SignupIdle, FALSE, isLoading, sessionQuery)
    /\ UNCHANGED <<session, profiles>>
    /\ SLog("signup", "noUser", "", NoNotice)

\* signUp created the account of u.  confirmed: the email needs no
\* confirmation (email_confirmed_at is set) and the backend client holds u's
\* session; otherwise no session is created.  The flow awaits the insert of
\* the profile row.
SignupUser(u, confirmed) ==
    /\ signupPc = AtSignUp
    /\ session' = IF confirmed THEN u ELSE session
    /\ SignupStep(AtProfileInsert(u, confirmed), authBusy, isLoading, sessionQuery)
    /\ UNCHANGED profiles
    /\ SLog("signup", "signUp", IF confirmed THEN "confirmed" ELSE "unconfirmed", NoNotice)

\* mutant of SignupCallsAuthSuccess: the callback runs for every new account
SignupCallsAuthSuccessAlways(confirmed) == TRUE

\* if (data.user.email_confirmed_at) onAuthSuccess()
SignupCallsAuthSuccess(confirmed) == confirmed

\* the profile insert returned (its error value is not looked at): the row is
\* stored when stored is true, which takes that u has no row yet.  The
\* "Account Created!" toast, and onAuthSuccess() up to its await of getSession
\* when the email is confirmed.
SignupProfileInsert(stored) ==
    /\ signupPc.pc = "insertProfile"
    /\ stored => profiles[signupPc.uid] = "none"
    /\ profiles' = IF stored THEN [profiles EXCEPT ![signupPc.uid] = "false"] ELSE profiles
    /\ IF SignupCallsAuthSuccess(signupPc.confirmed)
       THEN SignupStep(SignupIdle, FALSE, TRUE, "authSuccess")
       ELSE SignupStep(SignupIdle, FALSE, isLoading, sessionQuery)
    /\ UNCHANGED session
    /\ SLog("signup", "insertProfile", IF signupPc.confirmed THEN "confirmed" ELSE "unconfirmed",
            Toast("Account Created!",
                  IF signupPc.confirmed THEN "Welcome to NATPAC Travel Data Collection!"
                  ELSE "Please check your email to verify your account."))

SignupNext ==
    \/ SignupMismatch
    \/ SignupSubmit
    \/ \E msg \in ErrMessages : SignupError(msg)
    \/ SignupThrow
    \/ SignupNoUser
    \/ \E u \in Users, confirmed \in BOOLEAN : SignupUser(u, confirmed)
    \/ \E stored \in BOOLEAN : SignupProfileInsert(stored)

\* the page up to the consent screen, with the sign-in and sign-up forms
AuthOnlyNext ==
    \/ GetSessionResolve
    \/ \E event \in Events : AuthStateChange(event)
    \/ AuthNext
    \/ SignupNext
SpecAuth == Init /\ [][AuthOnlyNext]_vars

\* ------------------------------------------------------------ getSession rejected
\* getSession rejects: the startup query has no rejection handler and
\* onAuthSuccess has no try block, so the statements after it never run
\* (setUser and setIsLoading(false) are skipped) and nothing is shown
GetSessionThrow ==
    /\ sessionQuery # "none"
    /\ sessionQuery' = "none"
    /\ UNCHANGED <<session, isLoading, user, hasConsented, currentView, loginPc, signupPc,
                   logouts, profiles>>
    /\ AuthPageAfter(authBusy)
    /\ ConsentPageKept
    /\ LandedKeep
    /\ SLog("getSession", sessionQuery, "throw", NoNotice)

\* the page, the sign-in form and the consent page, with every outcome of
\* the session queries
FaultNext ==
    \/ GetSessionResolve
    \/ GetSessionThrow
    \/ \E event \in Events : AuthStateChange(event)
    \/ AuthNext
    \/ ConsentNext

SpecFaults == Init /\ [][FaultNext]_vars

\* every backend call in flight completes, with one of its outcomes
SessionQueryEnds == GetSessionResolve \/ GetSessionThrow
SignInEnds == (\E msg \in ErrMessages : LoginError(msg)) \/ LoginThrow \/ (\E u \in Users : LoginOk(u))
ConsentCallEnds(mounted) ==
    \/ \E u \in Users \cup {NoUser} : ConsentGetUser(mounted, u)
    \/ ConsentGetUserThrow(mounted)
    \/ \E u \in Users, out \in UpsertOutcomes : ConsentUpsert(mounted, u, out)

SpecFaultsFair ==
    /\ SpecFaults
    /\ WF_vars(SessionQueryEnds)
    /\ WF_vars(SignInEnds)
    /\ \A mounted \in BOOLEAN : WF_vars(ConsentCallEnds(mounted))

\* ------------------------------------------------------------ handleLogout
\* handleLogout calls that may await signOut at once
MaxLogoutFlows == 1

\* handleLogout (of the Dashboard or the ScientistDashboard) up to its await
\* of signOut
LogoutSubmit ==
    /\ Screen \in Dashboards
    /\ logouts < MaxLogoutFlows
    /\ logouts' = logouts + 1
    /\ UNCHANGED <<session, isLoading, user, hasConsented, currentView, sessionQuery,
                   loginPc, signupPc, profiles>>
    /\ AuthPageAfter(authBusy)
    /\ ConsentPageKept
    /\ LandedKeep
    /\ SLog("logout", "submit", Screen, NoNotice)

\* signOut returned an error value: the session is kept
LogoutError(msg) ==
    /\ logouts > 0
    /\ logouts' = logouts - 1
    /\ UNCHANGED <<session, isLoading, user, hasConsented, currentView, sessionQuery,
                   loginPc, signupPc, profiles>>
    /\ AuthPageAfter(authBusy)
    /\ ConsentPageKept
    /\ LandedKeep
    /\ SLog("logout", "error", msg, Toast("Logout Error", msg))

\* mutant of ReloadedView: the reloaded page opens on the research view
ReloadedViewResearch == "scientist"

\* useState<'user' | 'scientist'>('user') of the reloaded page
ReloadedView == "user"

\* signOut succeeded: the session has ended and window.location.reload()
\* starts the application again, which ends every flow of the old page
LogoutOk ==
    /\ logouts > 0
    /\ session' = NoUser
    /\ isLoading' = TRUE
    /\ user' = NoUser
    /\ hasConsented' = FALSE
    /\ currentView' = ReloadedView
    /\ sessionQuery' = "startup"
    /\ authBusy' = FALSE
    /\ loginPc' = "idle"
    /\ signupPc' = SignupIdle
    /\ logouts' = 0
    /\ consent' = FALSE
    /\ consentBusy' = FALSE
    /\ consentPc' = Idle
    /\ orphanConsent' = [st \in ConsentStages |-> 0]
    /\ signedOutFrom' = Screen
    /\ signOutPending' = TRUE
    /\ UNCHANGED profiles
    /\ SLog("logout", "ok", Screen, NoNotice)

LogoutNext ==
    \/ LogoutSubmit
    \/ \E msg \in ErrMessages : LogoutError(msg)
    \/ LogoutOk

\* the page with the dashboards' Logout buttons
SpecSession == Init /\ [][Next \/ LogoutNext]_vars

\* ------------------------------------------------------------ user dashboard
\* bounds of the dashboard specification
MaxTrips == 1
MaxTripFlows == 1

\* transportModes, as the Select offers them (value={mode.toLowerCase()})
TransportModes ==
    {"walking", "bicycle", "motorcycle", "car", "bus", "train", "metro",
     "auto rickshaw", "taxi", "other"}
TripFields ==
    {"trip_number", "origin", "destination", "mode", "start_time", "end_time",
     "companions"}
\* new Date().toISOString().slice(0, 16) at mount
Now == "2026-01-01T08:00"
\* the values a field can hold
FieldValues(f) ==
    CASE f = "trip_number" -> {"", "T1"}
      [] f = "origin" -> {"", "Home"}
      [] f = "destination" -> {"", "Work"}
      [] f = "mode" -> {""} \cup TransportModes
      [] f = "start_time" -> {"", Now}
      [] f = "end_time" -> {"", "2026-01-01T09:00"}
      [] f = "companions" -> {"", "2 friends"}
\* what the user types or picks while the form is open: the required fields
\* and the companions (the Select offers no empty mode)
FieldInputs(f) ==
    CASE f = "origin" -> {"", "Home"}
      [] f = "destination" -> {"", "Work"}
      [] f = "mode" -> {"car"}
      [] f = "companions" -> {"", "2 friends"}
      [] OTHER -> {}

\* mutant of MissingInformation: the mode is not checked
MissingOriginOrDestination(t) == t.origin = "" \/ t.destination = ""

\* if (!trip.origin || !trip.destination || !trip.mode)
MissingInformation(t) == t.origin = "" \/ t.destination = "" \/ t.mode = ""

OrNull(s) == IF s = "" THEN Null ELSE s

\* mutant of TripData: empty companions are sent as the empty string
TripDataEmptyCompanions(t, u) ==
    [user_id |-> u,
     trip_number |-> OrNull(t.trip_number),
     origin |-> t.origin,
     destination |-> t.destination,
     mode |-> t.mode,
     start_time |-> OrNull(t.start_time),
     end_time |-> OrNull(t.end_time),
     companions |-> t.companions]

\* const tripData = { user_id: user.id, trip_number: trip.trip_number || null, ... }
TripData(t, u) ==
    [user_id |-> u,
     trip_number |-> OrNull(t.trip_number),
     origin |-> t.origin,
     destination |-> t.destination,
     mode |-> t.mode,
     start_time |-> OrNull(t.start_time),
     end_time |-> OrNull(t.end_time),
     companions |-> OrNull(t.companions)]

NoPayload == TripData(EmptyTrip, NoUser)

\* mutant of InsertErrorDescription: always the generic text
InsertErrorGeneric(msg) == "Failed to save trip data."

\* description: error.message || "Failed to save trip data."
InsertErrorDescription(msg) == IF msg # "" THEN msg ELSE "Failed to save trip data."

\* a fetchTrips flow just started: awaiting getUser
NewFetch == [pc |-> "getUser", uid |-> NoUser]

\* mutant of HandleTripSaved: the list is not refreshed
HandleTripSavedNoRefresh(fs) == fs

\* handleTripSaved: fetchTrips() is called once (setShowForm(false) is in the action)
HandleTripSaved(fs) == Append(fs, NewFetch)

\* mutant of TripAfterSave: the form keeps its contents
TripAfterSaveKept(t) == t

\* setTrip({ trip_number: "", origin: "", ... }) after a successful insert
TripAfterSave(t) == EmptyTrip

RemoveAt(seq, i) == [j \in 1..(Len(seq) - 1) |-> IF j < i THEN seq[j] ELSE seq[j + 1]]

\* the flows after the TripForm was unmounted: all of them are orphans
Orphaned(fl) == [j \in 1..Len(fl) |-> [fl[j] EXCEPT !.mounted = FALSE]]

\* .select('*').eq('user_id', u).order('created_at', { ascending: false })
RECURSIVE SelectTrips(_, _, _)
SelectTrips(table, u, n) ==
    IF n = 0 THEN <<>>
    ELSE IF table[n].user_id = u
         THEN <<n>> \o SelectTrips(table, u, n - 1)
         ELSE SelectTrips(table, u, n - 1)

TLog(name, arg, out, n) ==
    /\ Log(name, arg, out, n)
    /\ UNCHANGED <<sessVars, researchVars, swVars>>

\* the Dashboard has just been mounted for u1: its mount effect has called
\* fetchTrips(), no form is shown
DashboardMounted ==
    /\ session = "u1"
    /\ isLoading = FALSE
    /\ user = "u1"
    /\ hasConsented = TRUE
    /\ currentView = "user"
    /\ sessionQuery = "none"
    /\ authBusy = FALSE
    /\ loginPc = "idle"
    /\ signupPc = SignupIdle
    /\ logouts = 0
    /\ profiles = [u \in Users |-> "none"]
    /\ consent = FALSE
    /\ consentBusy = FALSE
    /\ consentPc = Idle
    /\ orphanConsent = [st \in ConsentStages |-> 0]
    /\ signedOutFrom = "none"
    /\ signOutPending = FALSE
    /\ lastOp = Op("mount", "", "")
    /\ notice = NoNotice
    /\ showForm = FALSE
    /\ trip = EmptyTrip
    /\ tripBusy = FALSE
    /\ tripFlows = <<>>
    /\ tripsTable = <<>>
    /\ fetches = <<NewFetch>>
    /\ dashTrips = <<>>
    /\ dashLoading = TRUE
    /\ ResearchMounted("idle")

InitTrip == DashboardMounted /\ NoWorker

\* "Add New Trip": the TripForm is mounted; its mount effect fills start_time
\* (no geolocation is available: the origin stays empty)
OpenForm ==
    /\ Screen = "UserDashboard"
    /\ ~showForm
    /\ showForm' = TRUE
    /\ trip' = [EmptyTrip EXCEPT !.start_time = Now]
    /\ tripBusy' = FALSE
    /\ UNCHANGED <<tripFlows, tripsTable, fetches, dashTrips, dashLoading>>
    /\ TLog("ui", "", "", NoNotice)

\* "Cancel": the TripForm is unmounted and its state is lost, a flow in flight
\* goes on
CancelForm ==
    /\ showForm
    /\ showForm' = FALSE
    /\ tripFlows' = Orphaned(tripFlows)
    /\ trip' = EmptyTrip
    /\ tripBusy' = FALSE
    /\ UNCHANGED <<tripsTable, fetches, dashTrips, dashLoading>>
    /\ TLog("ui", "", "", NoNotice)

\* handleInputChange(field, value)
HandleInputChange(field, value) ==
    /\ showForm
    /\ trip' = [trip EXCEPT ![field] = value]
    /\ UNCHANGED <<showForm, tripBusy, tripFlows, tripsTable, fetches, dashTrips, dashLoading>>
    /\ TLog("ui", "", "", NoNotice)

\* handleSubmit up to its first await (the button is disabled while isLoading)
TripSubmit ==
    /\ showForm
    /\ ~tripBusy
    /\ IF MissingInformation(trip)
       THEN /\ UNCHANGED <<showForm, trip, tripBusy, tripFlows, tripsTable, fetches, dashTrips, dashLoading>>
            /\ TLog("trip", "submit", "invalid",
                    Toast("Missing Information",
                          "Please fill in origin, destination, and mode of transport."))
       ELSE /\ Len(tripFlows) < MaxTripFlows
            /\ tripBusy' = TRUE
            /\ tripFlows' = Append(tripFlows,
                  [pc |-> "getUser", form |-> trip, uid |-> NoUser,
                   payload |-> NoPayload, mounted |-> TRUE])
            /\ UNCHANGED <<showForm, trip, tripsTable, fetches, dashTrips, dashLoading>>
            /\ TLog("trip", "submit", "valid", NoNotice)

\* the finally block of flow i: setIsLoading(false) on its TripForm
BusyAfter(i) == IF tripFlows[i].mounted THEN FALSE ELSE tripBusy
Who(i) == IF tripFlows[i].mounted THEN "trip" ELSE "tripOrphan"

\* getUser resolved for flow i: no user, or user u and the insert is issued
TripGetUser(i, u) ==
    /\ i \in DOMAIN tripFlows
    /\ tripFlows[i].pc = "getUser"
    /\ u \in {session, NoUser}
    /\ IF u = NoUser
       THEN /\ tripFlows' = RemoveAt(tripFlows, i)
            /\ tripBusy' = BusyAfter(i)
            /\ TLog(Who(i), "getUser", NoUser,
                    Toast("Authentication Error", "Please login to save trips."))
       ELSE /\ tripFlows' = [tripFlows EXCEPT ![i].pc = "insert", ![i].uid = u,
                                ![i].payload = TripData(tripFlows[i].form, u)]
            /\ UNCHANGED tripBusy
            /\ TLog(Who(i), "getUser", u, NoNotice)
    /\ UNCHANGED <<showForm, trip, tripsTable, fetches, dashTrips, dashLoading>>

UnexpectedError == Toast("Error", "An unexpected error occurred. Please try again.")

\* getUser or the insert threw in flow i: the catch block
TripThrow(i) ==
    /\ i \in DOMAIN tripFlows
    /\ tripFlows' = RemoveAt(tripFlows, i)
    /\ tripBusy' = BusyAfter(i)
    /\ UNCHANGED <<showForm, trip, tripsTable, fetches, dashTrips, dashLoading>>
    /\ TLog(Who(i), tripFlows[i].pc, "throw", UnexpectedError)

\* the insert of flow i returned an error value with message msg
TripInsertError(i, msg) ==
    /\ i \in DOMAIN tripFlows
    /\ tripFlows[i].pc = "insert"
    /\ tripFlows' = RemoveAt(tripFlows, i)
    /\ tripBusy' = BusyAfter(i)
    /\ UNCHANGED <<showForm, trip, tripsTable, fetches, dashTrips, dashLoading>>
    /\ TLog(Who(i), "insertError", msg, Toast("Error", InsertErrorDescription(msg)))

\* the insert of flow i succeeded: the row is stored, the flow's form is reset
\* and onTripSaved() runs handleTripSaved, which unmounts the TripForm shown
\* (the flow's own, or a later one whose state is lost)
TripInsertOk(i) ==
    /\ i \in DOMAIN tripFlows
    /\ tripFlows[i].pc = "insert"
    /\ Len(tripsTable) < MaxTrips
    /\ tripsTable' = Append(tripsTable, tripFlows[i].payload)
    /\ trip' = IF tripFlows[i].mounted THEN TripAfterSave(trip) ELSE EmptyTrip
    /\ showForm' = FALSE
    /\ fetches' = HandleTripSaved(fetches)
    /\ tripFlows' = Orphaned(RemoveAt(tripFlows, i))
    /\ tripBusy' = FALSE
    /\ UNCHANGED <<dashTrips, dashLoading>>
    /\ TLog(Who(i), "insertOk", "", 
            Toast("Trip Saved Successfully",
                  "Your trip data has been recorded for transportation research."))

\* fetchTrips: getUser resolved for fetch k (no user: return)
FetchGetUser(k, u) ==
    /\ k \in DOMAIN fetches
    /\ fetches[k].pc = "getUser"
    /\ u \in {session, NoUser}
    /\ IF u = NoUser
       THEN /\ fetches' = RemoveAt(fetches, k)
            /\ dashLoading' = FALSE
       ELSE /\ fetches' = [fetches EXCEPT ![k].pc = "select", ![k].uid = u]
            /\ UNCHANGED dashLoading
    /\ UNCHANGED <<showForm, trip, tripBusy, tripFlows, tripsTable, dashTrips>>
    /\ TLog("ui", "", "", NoNotice)

\* mutant of DataOrEmpty: the rows are listed whatever the code
DataOrEmptyAnyCode(out, rows) == rows

\* data || [] of a select that returned no error or the code 42P01 (data: null)
DataOrEmpty(out, rows) == IF out = "ok" THEN rows ELSE <<>>

\* description of the "Data Load Error" toast
LoadErrorDescription(msg) ==
    IF msg # "" THEN "Could not load your trips: " \o msg
    ELSE "Could not load your trips. Using offline data."

\* fetchTrips: the select of fetch k returned rows (ok), or the error code
\* 42P01 with no rows: setTrips(data || [])
FetchSelectOk(k, out) ==
    /\ k \in DOMAIN fetches
    /\ fetches[k].pc = "select"
    /\ fetches' = RemoveAt(fetches, k)
    /\ dashTrips' = DataOrEmpty(out, SelectTrips(tripsTable, fetches[k].uid, Len(tripsTable)))
    /\ dashLoading' = FALSE
    /\ UNCHANGED <<showForm, trip, tripBusy, tripFlows, tripsTable>>
    /\ TLog("fetch", "select", out, NoNotice)

\* fetchTrips: the select of fetch k returned another error
FetchSelectError(k, msg) ==
    /\ k \in DOMAIN fetches
    /\ fetches[k].pc = "select"
    /\ fetches' = RemoveAt(fetches, k)
    /\ dashLoading' = FALSE
    /\ UNCHANGED <<showForm, trip, tripBusy, tripFlows, tripsTable, dashTrips>>
    /\ TLog("fetch", "selectError", msg, Toast("Data Load Error", LoadErrorDescription(msg)))

\* fetchTrips: getUser or the select threw
FetchThrow(k) ==
    /\ k \in DOMAIN fetches
    /\ fetches' = RemoveAt(fetches, k)
    /\ dashLoading' = FALSE
    /\ UNCHANGED <<showForm, trip, tripBusy, tripFlows, tripsTable, dashTrips>>
    /\ TLog("fetch", "throw", "", Toast("Unexpected Error", "thrown"))

TripNext ==
    \/ OpenForm
    \/ CancelForm
    \/ \E f \in TripFields : \E v \in FieldInputs(f) : HandleInputChange(f, v)
    \/ TripSubmit
    \/ \E i \in 1..MaxTripFlows : \E u \in Users \cup {NoUser} : TripGetUser(i, u)
    \/ \E i \in 1..MaxTripFlows : TripThrow(i)
    \/ \E i \in 1..MaxTripFlows : \E msg \in ErrMessages : TripInsertError(i, msg)
    \/ \E i \in 1..MaxTripFlows : TripInsertOk(i)
    \/ \E k \in 1..(MaxTrips + 1) : \E u \in Users \cup {NoUser} : FetchGetUser(k, u)
    \/ \E k \in 1..(MaxTrips + 1) : \E out \in {"ok", "42P01"} : FetchSelectOk(k, out)
    \/ \E k \in 1..(MaxTrips + 1) : \E msg \in ErrMessages : FetchSelectError(k, msg)
    \/ \E k \in 1..(MaxTrips + 1) : FetchThrow(k)

SpecTrip == InitTrip /\ [][TripNext]_vars

\* ------------------------------------------------------------ service worker
\* fetch events the worker may be handling at once
MaxSwFlows == 2

SwMethods == {"GET", "POST"}
SwRequests == [method : SwMethods, url : SwUrls]
\* what the network may answer: a successful or failed status, two contents
SwResponses == [ok : BOOLEAN, body : {"v1", "v2"}]

\* cache.match(event.request): an entry of the URL, for a GET request only
SwMatchIn(cache, req) ==
    IF req.method = "GET" THEN cache[req.url] ELSE NoResponse
\* event.request.method === 'GET' && networkResponse.ok
SwStores(req, resp) == req.method = "GET" /\ resp.ok

SwLog(kind, out) ==
    /\ Log("sw", kind, out, NoNotice)
    /\ UNCHANGED <<sessVars, tripVars, researchVars>>

\* a fetch event for req: respondWith(caches.open(...).then(cache.match ...))
SwFetchEvent(req) ==
    /\ Len(swFlows) < MaxSwFlows
    /\ swFlows' = Append(swFlows, [req |-> req, pc |-> "match", resp |-> NoResponse])
    /\ UNCHANGED swCache
    /\ SwLog("event", req)

\* cache.match resolved for event i: the entry answers the request, or the
\* request goes to the network
SwMatch(i) ==
    /\ i \in DOMAIN swFlows
    /\ swFlows[i].pc = "match"
    /\ LET hit == SwMatchIn(swCache, swFlows[i].req)
       IN  IF hit # NoResponse
           THEN /\ swFlows' = RemoveAt(swFlows, i)
                /\ SwLog("fromCache", [req |-> swFlows[i].req, resp |-> hit])
           ELSE /\ swFlows' = [swFlows EXCEPT ![i].pc = "network"]
                /\ SwLog("toNetwork", [req |-> swFlows[i].req, resp |-> NoResponse])
    /\ UNCHANGED swCache

\* fetch(event.request) resolved with resp for event i: cache.put is called
\* for a successful GET, and resp answers the request
SwNetwork(i, resp) ==
    /\ i \in DOMAIN swFlows
    /\ swFlows[i].pc = "network"
    /\ swFlows' = IF SwStores(swFlows[i].req, resp)
                  THEN [swFlows EXCEPT ![i].pc = "put", ![i].resp = resp]
                  ELSE RemoveAt(swFlows, i)
    /\ UNCHANGED swCache
    /\ SwLog("fromNetwork", [req |-> swFlows[i].req, resp |-> resp])

\* fetch(event.request) rejected for event i
SwNetworkFail(i) ==
    /\ i \in DOMAIN swFlows
    /\ swFlows[i].pc = "network"
    /\ swFlows' = RemoveAt(swFlows, i)
    /\ UNCHANGED swCache
    /\ SwLog("failed", [req |-> swFlows[i].req, resp |-> NoResponse])

\* the cache.put of event i completes
SwPut(i) ==
    /\ i \in DOMAIN swFlows
    /\ swFlows[i].pc = "put"
    /\ swCache' = [swCache EXCEPT ![swFlows[i].req.url] = swFlows[i].resp]
    /\ swFlows' = RemoveAt(swFlows, i)
    /\ SwLog("put", [req |-> swFlows[i].req, resp |-> swFlows[i].resp])

WorkerNext ==
    \/ \E req \in SwRequests : SwFetchEvent(req)
    \/ \E i \in 1..MaxSwFlows : SwMatch(i)
    \/ \E i \in 1..MaxSwFlows : \E resp \in SwResponses : SwNetwork(i, resp)
    \/ \E i \in 1..MaxSwFlows : SwNetworkFail(i)
    \/ \E i \in 1..MaxSwFlows : SwPut(i)

\* the worker controls the page: its cache is empty at first
SpecWorker == InitTrip /\ [][WorkerNext]_vars

\* ------------------------------------------------- the dashboard behind the worker
\* the body of a select's response: the JSON array of the rows (their ids)
RECURSIVE JsonItems(_)
JsonItems(rows) ==
    IF rows = <<>> THEN ""
    ELSE IF Len(rows) = 1 THEN ToString(rows[1])
    ELSE ToString(rows[1]) \o "," \o JsonItems(Tail(rows))
JsonOf(rows) == "[" \o JsonItems(rows) \o "]"

\* response.json() of such a body
RowLists == UNION {[1..n -> 1..MaxTrips] : n \in 0..MaxTrips}
ParseJson(body) == CHOOSE rows \in RowLists : JsonOf(rows) = body

\* the listing select of fetchTrips is a GET of the page
ListingRequest == [method |-> "GET", url |-> ListingUrl]

\* the HTTP response of the listing select: 200 with the rows, or the 404 of
\* the error code 42P01
ListingResponse(out, rows) ==
    IF out = "ok" THEN [ok |-> TRUE, body |-> JsonOf(rows)]
    ELSE [ok |-> FALSE, body |-> out]

\* what the client makes of a response: data of a 200, null of an error
DataOf(resp) == IF resp.ok THEN ParseJson(resp.body) ELSE <<>>

\* fetchTrips behind the worker: cache.match resolved for the select of fetch
\* k: an entry is the select's answer, otherwise the select goes to the network
OfflineSelectMatch(k) ==
    /\ k \in DOMAIN fetches
    /\ fetches[k].pc = "select"
    /\ LET hit == SwMatchIn(swCache, ListingRequest)
       IN  IF hit # NoResponse
           THEN /\ fetches' = RemoveAt(fetches, k)
                /\ dashTrips' = DataOrEmpty("ok", DataOf(hit))
                /\ dashLoading' = FALSE
                /\ Log("fetch", "select", "ok", NoNotice)
           ELSE /\ fetches' = [fetches EXCEPT ![k].pc = "network"]
                /\ UNCHANGED <<dashTrips, dashLoading>>
                /\ Log("sw", "toNetwork", [req |-> ListingRequest, resp |-> NoResponse], NoNotice)
    /\ UNCHANGED <<showForm, trip, tripBusy, tripFlows, tripsTable>>
    /\ UNCHANGED <<sessVars, researchVars, swVars>>

\* the network answered the select of fetch k (ok, or the code 42P01): the
\* worker calls cache.put for a successful answer and hands the answer to
\* fetchTrips: setTrips(data || [])
OfflineSelectNetwork(k, out) ==
    /\ k \in DOMAIN fetches
    /\ fetches[k].pc = "network"
    /\ LET resp == ListingResponse(out, SelectTrips(tripsTable, fetches[k].uid, Len(tripsTable)))
       IN  /\ swFlows' = IF SwStores(ListingRequest, resp)
                         THEN Append(swFlows, [req |-> ListingRequest, pc |-> "put", resp |-> resp])
                         ELSE swFlows
           /\ dashTrips' = DataOrEmpty(out, DataOf(resp))
    /\ fetches' = RemoveAt(fetches, k)
    /\ dashLoading' = FALSE
    /\ UNCHANGED <<showForm, trip, tripBusy, tripFlows, tripsTable>>
    /\ UNCHANGED <<sessVars, researchVars, swCache>>
    /\ Log("fetch", "select", out, NoNotice)

\* the network answered the select of fetch k with another error
OfflineSelectError(k, msg) ==
    /\ k \in DOMAIN fetches
    /\ fetches[k].pc = "network"
    /\ fetches' = RemoveAt(fetches, k)
    /\ dashLoading' = FALSE
    /\ UNCHANGED <<showForm, trip, tripBusy, tripFlows, tripsTable, dashTrips>>
    /\ TLog("fetch", "selectError", msg, Toast("Data Load Error", LoadErrorDescription(msg)))

\* the page with the worker in front of its requests: the insert is a POST,
\* which the worker passes to the network and does not store
OfflineNext ==
    \/ OpenForm
    \/ CancelForm
    \/ \E f \in TripFields : \E v \in FieldInputs(f) : HandleInputChange(f, v)
    \/ TripSubmit
    \/ \E i \in 1..MaxTripFlows : \E u \in Users \cup {NoUser} : TripGetUser(i, u)
    \/ \E i \in 1..MaxTripFlows : TripThrow(i)
    \/ \E i \in 1..MaxTripFlows : \E msg \in ErrMessages : TripInsertError(i, msg)
    \/ \E i \in 1..MaxTripFlows : TripInsertOk(i)
    \/ \E k \in 1..(MaxTrips + 1) : \E u \in Users \cup {NoUser} : FetchGetUser(k, u)
    \/ \E k \in 1..(MaxTrips + 1) : OfflineSelectMatch(k)
    \/ \E k \in 1..(MaxTrips + 1) : \E out \in {"ok", "42P01"} : OfflineSelectNetwork(k, out)
    \/ \E k \in 1..(MaxTrips + 1) : \E msg \in ErrMessages : OfflineSelectError(k, msg)
    \/ \E k \in 1..(MaxTrips + 1) : FetchThrow(k)
    \/ \E i \in 1..(MaxTrips + 1) : SwPut(i)

SpecOffline == InitTrip /\ [][OfflineNext]_vars

\* ------------------------------------------------- fetchTrips: responses in flight
\* a fetchTrips flow whose select the backend has answered (out: "ok" or
\* "42P01") with rows, the response not yet handed to the flow
Answered(u, out, rows) == [pc |-> "response", uid |-> u, out |-> out, rows |-> rows]
\* a fetchTrips flow that has ended with out; rows: what it gave to setTrips
Ended(out, rows) == [pc |-> "done", uid |-> NoUser, out |-> out, rows |-> rows]

\* fetchTrips: getUser resolved for fetch k (no user: return)
RaceGetUser(k, u) ==
    /\ k \in DOMAIN fetches
    /\ fetches[k].pc = "getUser"
    /\ u \in {session, NoUser}
    /\ IF u = NoUser
       THEN /\ fetches' = [fetches EXCEPT ![k] = Ended("noUser", <<>>)]
            /\ dashLoading' = FALSE
       ELSE /\ fetches' = [fetches EXCEPT ![k].pc = "select", ![k].uid = u]
            /\ UNCHANGED dashLoading
    /\ UNCHANGED <<showForm, trip, tripBusy, tripFlows, tripsTable, dashTrips>>
    /\ TLog("ui", "", "", NoNotice)

\* the backend runs the select of fetch k on the table as it is now
RaceSelectServed(k, out) ==
    /\ k \in DOMAIN fetches
    /\ fetches[k].pc = "select"
    /\ fetches' = [fetches EXCEPT ![k] =
           Answered(fetches[k].uid, out,
                    DataOrEmpty(out, SelectTrips(tripsTable, fetches[k].uid, Len(tripsTable))))]
    /\ UNCHANGED <<showForm, trip, tripBusy, tripFlows, tripsTable, dashTrips, dashLoading>>
    /\ TLog("backend", "select", out, NoNotice)

\* the response reaches fetch k: setTrips(data || [])
RaceSelectDeliver(k) ==
    /\ k \in DOMAIN fetches
    /\ fetches[k].pc = "response"
    /\ dashTrips' = fetches[k].rows
    /\ fetches' = [fetches EXCEPT ![k] = Ended(fetches[k].out, fetches[k].rows)]
    /\ dashLoading' = FALSE
    /\ UNCHANGED <<showForm, trip, tripBusy, tripFlows, tripsTable>>
    /\ TLog("fetch", "select", fetches[k].out, NoNotice)

\* the select of fetch k returned another error
RaceSelectError(k, msg) ==
    /\ k \in DOMAIN fetches
    /\ fetches[k].pc = "select"
    /\ fetches' = [fetches EXCEPT ![k] = Ended("error", <<>>)]
    /\ dashLoading' = FALSE
    /\ UNCHANGED <<showForm, trip, tripBusy, tripFlows, tripsTable, dashTrips>>
    /\ TLog("fetch", "selectError", msg, Toast("Data Load Error", LoadErrorDescription(msg)))

\* getUser or the select of fetch k threw
RaceThrow(k) ==
    /\ k \in DOMAIN fetches
    /\ fetches[k].pc \in {"getUser", "select", "response"}
    /\ fetches' = [fetches EXCEPT ![k] = Ended("throw", <<>>)]
    /\ dashLoading' = FALSE
    /\ UNCHANGED <<showForm, trip, tripBusy, tripFlows, tripsTable, dashTrips>>
    /\ TLog("fetch", "throw", "", Toast("Unexpected Error", "thrown"))

\* the user dashboard with the backend's answer and its arrival as two steps;
\* the fetches that have ended stay in the list, in the order they were issued
RaceNext ==
    \/ OpenForm
    \/ CancelForm
    \/ \E f \in TripFields : \E v \in FieldInputs(f) : HandleInputChange(f, v)
    \/ TripSubmit
    \/ \E i \in 1..MaxTripFlows : \E u \in Users \cup {NoUser} : TripGetUser(i, u)
    \/ \E i \in 1..MaxTripFlows : TripThrow(i)
    \/ \E i \in 1..MaxTripFlows : \E msg \in ErrMessages : TripInsertError(i, msg)
    \/ \E i \in 1..MaxTripFlows : TripInsertOk(i)
    \/ \E k \in 1..(MaxTrips + 1) : \E u \in Users \cup {NoUser} : RaceGetUser(k, u)
    \/ \E k \in 1..(MaxTrips + 1) : \E out \in {"ok", "42P01"} : RaceSelectServed(k, out)
    \/ \E k \in 1..(MaxTrips + 1) : RaceSelectDeliver(k)
    \/ \E k \in 1..(MaxTrips + 1) : \E msg \in ErrMessages : RaceSelectError(k, msg)
    \/ \E k \in 1..(MaxTrips + 1) : RaceThrow(k)

SpecRace == InitTrip /\ [][RaceNext]_vars

\* ------------------------------------------------------------ research dashboard
\* trips the research dashboard may hold in this model
MaxResearchTrips == 3

\* a JavaScript string as the sequence of its characters, for the strings of
\* this model
Chars(str) ==
    CASE str = "" -> <<>>
      [] str = "Ab" -> <<"A", "b">>
      [] str = "aB" -> <<"a", "B">>
      [] str = "x" -> <<"x">>
      [] str = "b" -> <<"b">>
      [] str = "a,b" -> <<"a", ",", "b">>
      [] str = "p" -> <<"p">>
      [] str = "p\nq" -> <<"p", "\n", "q">>
      [] str = "ab" -> <<"a", "b">>
      [] str = "B" -> <<"B">>
      [] str = "car" -> <<"c", "a", "r">>
      [] str = "bus" -> <<"b", "u", "s">>
      [] str = "train" -> <<"t", "r", "a", "i", "n">>
      [] str = "walking" -> <<"w", "a", "l", "k", "i", "n", "g">>
      [] str = "u1" -> <<"u", "1">>
      [] str = "u2" -> <<"u", "2">>
      [] str = "NULL" -> <<"N", "U", "L", "L">>
      [] str = "2026-01-01T08:00" -> <<"2", "0", "2", "6", "-", "0", "1", "-", "0", "1", "T", "0", "8", ":", "0", "0">>
      [] str = "Home" -> <<"H", "o", "m", "e">>
      [] str = "Work" -> <<"W", "o", "r", "k">>
      [] str = "T1" -> <<"T", "1">>
      [] str = "2 friends" -> <<"2", " ", "f", "r", "i", "e", "n", "d", "s">>
      [] str = "2026-01-01T09:00" -> <<"2", "0", "2", "6", "-", "0", "1", "-", "0", "1", "T", "0", "9", ":", "0", "0">>
      [] str = "Trip ID" -> <<"T", "r", "i", "p", " ", "I", "D">>
      [] str = "User ID" -> <<"U", "s", "e", "r", " ", "I", "D">>
      [] str = "Trip Number" -> <<"T", "r", "i", "p", " ", "N", "u", "m", "b", "e", "r">>
      [] str = "Origin" -> <<"O", "r", "i", "g", "i", "n">>
      [] str = "Destination" -> <<"D", "e", "s", "t", "i", "n", "a", "t", "i", "o", "n">>
      [] str = "Mode" -> <<"M", "o", "d", "e">>
      [] str = "Start Time" -> <<"S", "t", "a", "r", "t", " ", "T", "i", "m", "e">>
      [] str = "End Time" -> <<"E", "n", "d", " ", "T", "i", "m", "e">>
      [] str = "Companions" -> <<"C", "o", "m", "p", "a", "n", "i", "o", "n", "s">>
      [] str = "backend says no" -> <<"b", "a", "c", "k", "e", "n", "d", " ", "s", "a", "y", "s", " ", "n", "o">>
      [] str = "Could not load your trips: backend says no" -> <<"C", "o", "u", "l", "d", " ", "n", "o", "t", " ", "l", "o", "a", "d", " ", "y", "o", "u", "r", " ", "t", "r", "i", "p", "s", ":", " ", "b", "a", "c", "k", "e", "n", "d", " ", "s", "a", "y", "s", " ", "n", "o">>
      [] str = "Could not load your trips. Using offline data." -> <<"C", "o", "u", "l", "d", " ", "n", "o", "t", " ", "l", "o", "a", "d", " ", "y", "o", "u", "r", " ", "t", "r", "i", "p", "s", ".", " ", "U", "s", "i", "n", "g", " ", "o", "f", "f", "l", "i", "n", "e", " ", "d", "a", "t", "a", ".">>
      [] str = "Could not load trip data. Please ensure database is set up." -> <<"C", "o", "u", "l", "d", " ", "n", "o", "t", " ", "l", "o", "a", "d", " ", "t", "r", "i", "p", " ", "d", "a", "t", "a", ".", " ", "P", "l", "e", "a", "s", "e", " ", "e", "n", "s", "u", "r", "e", " ", "d", "a", "t", "a", "b", "a", "s", "e", " ", "i", "s", " ", "s", "e", "t", " ", "u", "p", ".">>
      [] str = "Failed to save trip data." -> <<"F", "a", "i", "l", "e", "d", " ", "t", "o", " ", "s", "a", "v", "e", " ", "t", "r", "i", "p", " ", "d", "a", "t", "a", ".">>

\* String(n) of a trip id
Digits == <<"1", "2", "3", "4", "5", "6", "7", "8", "9">>
IdChars(n) == <<Digits[n]>>

\* c.toLowerCase() of one character of the model's alphabet
LowerChar(c) ==
    CASE c = "A" -> "a" [] c = "B" -> "b" [] c = "H" -> "h" [] c = "W" -> "w"
      [] c = "T" -> "t" [] OTHER -> c
ToLowerCase(cs) == [i \in 1..Len(cs) |-> LowerChar(cs[i])]

\* hay.includes(needle)
Includes(hay, needle) ==
    \E i \in 0..(Len(hay) - Len(needle)) : SubSeq(hay, i + 1, i + Len(needle)) = needle

\* a stored trip as the research dashboard may find it: written by the trip form
Row(u, o, d, m, c) ==
    [user_id |-> u, trip_number |-> Null, origin |-> o, destination |-> d,
     mode |-> m, start_time |-> Null, end_time |-> Null, companions |-> c]
ResearchRows ==
    {Row("u1", "Ab", "x", "car", Null),
     Row("u2", "x", "aB", "bus", Null),
     [Row("u1", "a,b", "x", "bus", "p\nq") EXCEPT !.start_time = Now],
     Row("u2", "x", "x", "car", "p")}
RECURSIVE TablesOfLen(_)
TablesOfLen(n) ==
    IF n = 0 THEN {<<>>}
    ELSE {Append(t, r) : t \in TablesOfLen(n - 1), r \in ResearchRows}
ResearchTables == UNION {TablesOfLen(n) : n \in 0..MaxResearchTrips}

\* .select('*').order('created_at', { ascending: false }): the rows with their
\* ids, newest first
RECURSIVE AllTrips(_, _)
AllTrips(table, n) ==
    IF n = 0 THEN <<>>
    ELSE <<[id |-> n, user_id |-> table[n].user_id,
            trip_number |-> table[n].trip_number, origin |-> table[n].origin,
            destination |-> table[n].destination, mode |-> table[n].mode,
            start_time |-> table[n].start_time, end_time |-> table[n].end_time,
            companions |-> table[n].companions]>> \o AllTrips(table, n - 1)

\* the Select's items and the search terms typed in this model
ModeFilters == {"all", "car", "bus", "train", "walking"}
SearchTerms == {"", "ab", "B"}

\* the filter effect's searchTerm predicate
MatchesTerm(t, term) ==
    \/ Includes(ToLowerCase(Chars(t.origin)), ToLowerCase(Chars(term)))
    \/ Includes(ToLowerCase(Chars(t.destination)), ToLowerCase(Chars(term)))

\* mutant of FilterTrips: the two predicates combine with OR
FilterTripsEither(trips, term, mf) ==
    SelectSeq(trips, LAMBDA t : (term # "" /\ MatchesTerm(t, term)) \/ t.mode = mf)

\* the filter effect: runs after every render in which searchTerm, modeFilter
\* or trips changed, before the next event is handled
FilterTrips(trips, term, mf) ==
    LET byTerm == IF term # "" THEN SelectSeq(trips, LAMBDA t : MatchesTerm(t, term))
                  ELSE trips
    IN  IF mf # "all" THEN SelectSeq(byTerm, LAMBDA t : t.mode = mf) ELSE byTerm

RLog(name, arg, out, n) ==
    /\ Log(name, arg, out, n)
    /\ UNCHANGED <<sessVars, tripVars, swVars>>

\* the ScientistDashboard has just been mounted for u1 over some stored trips:
\* its mount effect has called fetchAllTrips()
InitResearch ==
    /\ session = "u1"
    /\ isLoading = FALSE
    /\ user = "u1"
    /\ hasConsented = TRUE
    /\ currentView = "scientist"
    /\ sessionQuery = "none"
    /\ authBusy = FALSE
    /\ loginPc = "idle"
    /\ signupPc = SignupIdle
    /\ logouts = 0
    /\ profiles = [u \in Users |-> "none"]
    /\ consent = FALSE
    /\ consentBusy = FALSE
    /\ consentPc = Idle
    /\ orphanConsent = [st \in ConsentStages |-> 0]
    /\ signedOutFrom = "none"
    /\ signOutPending = FALSE
    /\ lastOp = Op("mount", "", "")
    /\ notice = NoNotice
    /\ showForm = FALSE
    /\ trip = EmptyTrip
    /\ tripBusy = FALSE
    /\ tripFlows = <<>>
    /\ tripsTable \in ResearchTables
    /\ fetches = <<>>
    /\ dashTrips = <<>>
    /\ dashLoading = TRUE
    /\ ResearchMounted("select")
    /\ NoWorker

\* fetchAllTrips: the select returned rows (ok), or the error code 42P01 with
\* no rows: setTrips(data || []), then the filter effect
FetchAllOk(out) ==
    /\ rFetch = "select"
    /\ rFetch' = "done"
    /\ rTrips' = DataOrEmpty(out, AllTrips(tripsTable, Len(tripsTable)))
    /\ filteredTrips' = FilterTrips(rTrips', searchTerm, modeFilter)
    /\ rLoading' = FALSE
    /\ UNCHANGED <<searchTerm, modeFilter, csv>>
    /\ RLog("research", "select", out, NoNotice)

\* fetchAllTrips: the select returned another error
FetchAllError(msg) ==
    /\ rFetch = "select"
    /\ rFetch' = "done"
    /\ rLoading' = FALSE
    /\ UNCHANGED <<rTrips, filteredTrips, searchTerm, modeFilter, csv>>
    /\ RLog("research", "selectError", msg,
            Toast("Data Load Error",
                  "Could not load trip data. Please ensure database is set up."))

\* fetchAllTrips: the select threw (logged to the console only)
FetchAllThrow ==
    /\ rFetch = "select"
    /\ rFetch' = "done"
    /\ rLoading' = FALSE
    /\ UNCHANGED <<rTrips, filteredTrips, searchTerm, modeFilter, csv>>
    /\ RLog("research", "throw", "", NoNotice)

\* the search Input's onChange, then the filter effect
SetSearchTerm(term) ==
    /\ Screen = "ResearchDashboard"
    /\ searchTerm' = term
    /\ filteredTrips' = FilterTrips(rTrips, term, modeFilter)
    /\ UNCHANGED <<rTrips, modeFilter, rLoading, rFetch, csv>>
    /\ RLog("research", "filter", "", NoNotice)

\* the mode Select's onValueChange, then the filter effect
SetModeFilter(mf) ==
    /\ Screen = "ResearchDashboard"
    /\ modeFilter' = mf
    /\ filteredTrips' = FilterTrips(rTrips, searchTerm, mf)
    /\ UNCHANGED <<rTrips, searchTerm, rLoading, rFetch, csv>>
    /\ RLog("research", "filter", "", NoNotice)

\* getStats: the reduce into modeCounts, whose entries keep the order in which
\* the modes were first seen (no mode is an integer-like key)
RECURSIVE ModeCounts(_, _, _)
ModeCounts(ft, i, acc) ==
    IF i > Len(ft) THEN acc
    ELSE IF \E k \in DOMAIN acc : acc[k].mode = ft[i].mode
         THEN ModeCounts(ft, i + 1,
                  [k \in DOMAIN acc |->
                      IF acc[k].mode = ft[i].mode
                      THEN [acc[k] EXCEPT !.count = @ + 1] ELSE acc[k]])
         ELSE ModeCounts(ft, i + 1, Append(acc, [mode |-> ft[i].mode, count |-> 1]))

\* mutant of InsertByCount: an entry goes before the entries of equal count
InsertByCountFirst(sorted, e) ==
    LET before == SelectSeq(sorted, LAMBDA x : x.count > e.count)
        after == SelectSeq(sorted, LAMBDA x : x.count <= e.count)
    IN  before \o <<e>> \o after

\* .sort(([,a], [,b]) => b - a): a stable sort, as an insertion of each entry
\* after the entries whose count is not smaller
InsertByCount(sorted, e) ==
    LET before == SelectSeq(sorted, LAMBDA x : x.count >= e.count)
        after == SelectSeq(sorted, LAMBDA x : x.count < e.count)
    IN  before \o <<e>> \o after
RECURSIVE SortByCountDesc(_, _, _)
SortByCountDesc(entries, i, sorted) ==
    IF i > Len(entries) THEN sorted
    ELSE SortByCountDesc(entries, i + 1, InsertByCount(sorted, entries[i]))

GetStats(ft) ==
    LET entries == SortByCountDesc(ModeCounts(ft, 1, <<>>), 1, <<>>)
    IN  [totalTrips |-> Len(ft),
         uniqueUsers |-> Cardinality({ft[i].user_id : i \in DOMAIN ft}),
         topMode |-> IF entries = <<>> THEN "N/A"
                     ELSE entries[1].mode \o " (" \o ToString(entries[1].count) \o " trips)"]
\* const stats = getStats(), computed at every render
Stats == GetStats(filteredTrips)

\* value || ""
OrEmpty(v) == IF v = Null THEN "" ELSE v
CsvHeader ==
    <<"Trip ID", "User ID", "Trip Number", "Origin", "Destination", "Mode",
      "Start Time", "End Time", "Companions">>
\* row.join(sep) over character sequences
RECURSIVE Join(_, _)
Join(parts, sep) ==
    IF parts = <<>> THEN <<>>
    ELSE IF Len(parts) = 1 THEN parts[1]
    ELSE parts[1] \o <<sep>> \o Join(Tail(parts), sep)
CsvRow(t) ==
    <<IdChars(t.id), Chars(t.user_id), Chars(OrEmpty(t.trip_number)), Chars(t.origin),
      Chars(t.destination), Chars(t.mode), Chars(OrEmpty(t.start_time)),
      Chars(OrEmpty(t.end_time)), Chars(OrEmpty(t.companions))>>
\* csvContent of exportData
CsvContent(ft) ==
    Join(<<Join([i \in 1..9 |-> Chars(CsvHeader[i])], ",")>>
         \o [i \in 1..Len(ft) |-> Join(CsvRow(ft[i]), ",")], "\n")

\* exportData: the file natpac_trip_data.csv is downloaded
ExportData ==
    /\ Screen = "ResearchDashboard"
    /\ csv' = CsvContent(filteredTrips)
    /\ UNCHANGED <<rTrips, filteredTrips, searchTerm, modeFilter, rLoading, rFetch>>
    /\ RLog("research", "export", "", NoNotice)

ResearchNext ==
    \/ \E out \in {"ok", "42P01"} : FetchAllOk(out)
    \/ \E msg \in ErrMessages : FetchAllError(msg)
    \/ FetchAllThrow
    \/ \E term \in SearchTerms : SetSearchTerm(term)
    \/ \E mf \in ModeFilters : SetModeFilter(mf)
    \/ ExportData

SpecResearch == InitResearch /\ [][ResearchNext]_vars

\* either dashboard, as mounted by the page for a consented user
InitDash == InitTrip \/ InitResearch
DashNext == TripNext \/ ResearchNext
SpecDash == InitDash /\ [][DashNext]_vars

\* ------------------------------------------------------------ claims C1-C5
SignedOutLast == lastOp.op = "authChange" /\ lastOp.arg = "SIGNED_OUT"

\* C1: on every screen, the step that receives SIGNED_OUT leaves user null and
\* hasConsented false, and from then until the sign-in screen has been rendered
\* no screen other than Loading or Unauthenticated is rendered.
C1_SignedOutResets ==
    /\ [](SignedOutLast =>
            /\ user = NoUser
            /\ hasConsented = FALSE
            /\ Screen \in {"Loading", "Unauthenticated"})
    /\ [][signOutPending => NewScreen \in {"Loading", "Unauthenticated"}]_vars

\* C1 witness: SIGNED_OUT has just arrived on the research dashboard
C1_Witness ==
    /\ SignedOutLast
    /\ lastOp.out = "ResearchDashboard"
    /\ Screen = "Unauthenticated"

\* C2 (as stated): after a SIGNED_OUT that arrived on the research dashboard,
\* the state is Unauthenticated with the flag cleared, and the next user to
\* land does not land in a dashboard.
C2_NextSignInAtConsent ==
    /\ [](SignedOutLast /\ lastOp.out = "ResearchDashboard"
            => Screen = "Unauthenticated" /\ ~hasConsented)
    /\ [][signedOutFrom = "ResearchDashboard" => NewScreen \notin Dashboards]_vars

\* C3 (as stated): every step from the consent screen into a dashboard enters
\* the user dashboard.
C3_ConsentLandsInUserDashboard ==
    [][Screen = "ConsentPending" /\ NewScreen \in Dashboards
          => NewScreen = "UserDashboard"]_vars

\* a step in which a consent flow ends
ConsentEnded == lastOp'.op = "consent" /\ ConsentInFlight' < ConsentInFlight
NoUserFound == lastOp'.arg = "getUser" /\ lastOp'.out = NoUser

\* C4 (as stated): every consent flow that ends has granted access.
C4_AlwaysGrants == [][ConsentEnded => hasConsented' = TRUE]_vars

\* C4 (amended): a consent flow that ends has granted access for every outcome
\* of the upsert and when the user lookup throws; when the user lookup returns
\* no user it raises the "Please login first." notice and leaves the flag as
\* it was.
C4_GrantsUnlessNoUser ==
    [][ConsentEnded =>
          IF NoUserFound
          THEN /\ hasConsented' = hasConsented
               /\ notice' = Toast("Error", "Please login first.")
          ELSE hasConsented' = TRUE]_vars

\* C4 witness: an upsert error other than 42P01 has just been swallowed and
\* the dashboard is shown
C4_Witness ==
    /\ lastOp = Op("consent", "upsert", "error")
    /\ hasConsented
    /\ Screen \in Dashboards

\* C5: the consent screen is rendered only with a user, a dashboard only with
\* a user and consent, and after onAuthSuccess's getSession found no session
\* the sign-in screen is rendered.
C5_RenderGates ==
    /\ Screen = "ConsentPending" => user # NoUser
    /\ Screen \in Dashboards => user # NoUser /\ hasConsented
    /\ lastOp = Op("getSession", "authSuccess", NoUser) => Screen = "Unauthenticated"

\* C5 witness: onAuthSuccess's getSession has just found no session
C5_Witness ==
    /\ lastOp = Op("getSession", "authSuccess", NoUser)
    /\ Screen = "Unauthenticated"
    /\ user = NoUser

\* ------------------------------------------------------------ claims C6-C10
TripStep(kind) == lastOp'.op \in {"trip", "tripOrphan"} /\ lastOp'.arg = kind
InsertsInFlight == Cardinality({i \in DOMAIN tripFlows : tripFlows[i].pc = "insert"})
OptionalFields == {"trip_number", "start_time", "end_time", "companions"}
AllFieldsEmpty(t) == \A f \in TripFields : t[f] = ""

\* C6: a submission with an empty origin, destination or mode starts no flow
\* (no getUser, no insert, no fetch), raises the "Missing Information"
\* notice, and leaves every field and the busy flag (lowered) as they were.
C6_InvalidSubmitRejected ==
    [][TripStep("submit") /\ (trip.origin = "" \/ trip.destination = "" \/ trip.mode = "")
          => /\ notice' = Toast("Missing Information",
                                "Please fill in origin, destination, and mode of transport.")
             /\ trip' = trip
             /\ tripBusy' = FALSE
             /\ tripFlows' = tripFlows
             /\ fetches' = fetches
             /\ tripsTable' = tripsTable]_vars

\* C6 witness: a form with origin and destination but no mode was just rejected
C6_Witness ==
    /\ lastOp = Op("trip", "submit", "invalid")
    /\ notice.title = "Missing Information"
    /\ trip.origin # "" /\ trip.destination # "" /\ trip.mode = ""
    /\ tripFlows = <<>>
    /\ ~tripBusy

\* C7: the step in which an insert is reported successful leaves the
\* submitting form with all seven fields empty and starts exactly one
\* fetchTrips.
C7_SuccessResetsAndRefreshesOnce ==
    [][TripStep("insertOk")
          => /\ lastOp'.op = "trip" => AllFieldsEmpty(trip')
             /\ fetches' = Append(fetches, [pc |-> "getUser", uid |-> NoUser])
             /\ Len(tripsTable') = Len(tripsTable) + 1]_vars

\* C7 witness: the shown form's insert succeeded while the mount fetch was
\* still in flight
C7_Witness ==
    /\ lastOp = Op("trip", "insertOk", "")
    /\ AllFieldsEmpty(trip)
    /\ Len(fetches) = 2
    /\ Len(tripsTable) = 1

\* what an insert error leaves alone
InsertErrorFrame ==
    /\ notice'.title = "Error"
    /\ trip' = trip
    /\ showForm' = showForm
    /\ fetches' = fetches
    /\ tripsTable' = tripsTable
    /\ lastOp'.op = "trip" => ~tripBusy'

\* C8 (as stated): an insert error raises a notice whose text is the backend's
\* message, keeps every field, starts no refresh and lowers the busy flag.
C8_ErrorVerbatim ==
    [][TripStep("insertError")
          => notice'.description = lastOp'.out /\ InsertErrorFrame]_vars

\* C8 (amended): the notice's text is the backend's message when that is not
\* empty and "Failed to save trip data." when it is; the rest as stated.
C8_ErrorMessageOrFallback ==
    [][TripStep("insertError")
          => /\ notice'.description =
                   IF lastOp'.out # "" THEN lastOp'.out ELSE "Failed to save trip data."
             /\ InsertErrorFrame]_vars

\* C8 witness: the shown form's insert failed with a message; the form is
\* still filled in and can be submitted again
C8_Witness ==
    /\ lastOp = Op("trip", "insertError", "backend says no")
    /\ notice = Toast("Error", "backend says no")
    /\ showForm /\ ~tripBusy
    /\ trip.origin # "" /\ trip.destination # "" /\ trip.mode # ""

\* the payload p is the form t owned by u, empty optional fields as null
PayloadOf(p, t, u) ==
    /\ DOMAIN p = {"user_id"} \cup TripFields
    /\ p.user_id = u
    /\ p.origin = t.origin /\ p.destination = t.destination /\ p.mode = t.mode
    /\ \A f \in OptionalFields : p[f] = IF t[f] = "" THEN Null ELSE t[f]

\* valid forms with every combination of empty and filled optional fields
OptionalVariants ==
    [trip_number : FieldValues("trip_number"), origin : {"Home"},
     destination : {"Work"}, mode : {"car"},
     start_time : FieldValues("start_time"), end_time : FieldValues("end_time"),
     companions : FieldValues("companions")]

\* C9: a valid submission issues one insert when getUser resolves a user and
\* none (with the "Authentication Error" notice) when it resolves none; no
\* other step issues an insert; the payload carries the resolved user's id and
\* null for each empty optional field.
C9_OneInsertWithNulls ==
    /\ [](\A i \in DOMAIN tripFlows :
            /\ tripFlows[i].pc = "insert" =>
                 /\ tripFlows[i].uid \in Users
                 /\ PayloadOf(tripFlows[i].payload, tripFlows[i].form, tripFlows[i].uid)
            /\ ~MissingInformation(tripFlows[i].form))
    /\ [](\A t \in OptionalVariants : PayloadOf(TripData(t, "u1"), t, "u1"))
    /\ [][/\ TripStep("getUser") /\ lastOp'.out \in Users
               => /\ InsertsInFlight' = InsertsInFlight + 1
                  /\ Len(tripFlows') = Len(tripFlows)
          /\ TripStep("getUser") /\ lastOp'.out = NoUser
               => /\ InsertsInFlight' = InsertsInFlight
                  /\ Len(tripFlows') = Len(tripFlows) - 1
                  /\ tripsTable' = tripsTable
                  /\ notice' = Toast("Authentication Error", "Please login to save trips.")
          /\ ~(TripStep("getUser") /\ lastOp'.out \in Users)
               => InsertsInFlight' <= InsertsInFlight
          /\ Len(tripsTable') <= Len(tripsTable) + 1]_vars

\* C9 witness: an insert is in flight for u1 whose trip number, end time and
\* companions are null
C9_Witness ==
    \E i \in DOMAIN tripFlows :
        /\ tripFlows[i].pc = "insert"
        /\ tripFlows[i].form.companions = ""
        /\ tripFlows[i].payload.user_id = "u1"
        /\ tripFlows[i].payload.companions = Null
        /\ tripFlows[i].payload.trip_number = Null
        /\ tripFlows[i].payload.end_time = Null
        /\ tripFlows[i].payload.start_time = Now

\* C10: every stored trip has an origin, a destination and a mode of
\* transportModes, and the table changes only by a successful insert of the
\* submission flow appending one row.
C10_TripsValidAndAppendOnly ==
    /\ [](\A n \in DOMAIN tripsTable :
            /\ tripsTable[n].origin \notin {"", Null}
            /\ tripsTable[n].destination \notin {"", Null}
            /\ tripsTable[n].mode \in TransportModes)
    /\ [][tripsTable' # tripsTable
            => /\ TripStep("insertOk")
               /\ Len(tripsTable') = Len(tripsTable) + 1
               /\ SubSeq(tripsTable', 1, Len(tripsTable)) = tripsTable]_vars

\* C10 witness: a trip has just been stored
C10_Witness ==
    /\ lastOp.arg = "insertOk"
    /\ Len(tripsTable) = 1
    /\ tripsTable[1].user_id = "u1"
    /\ tripsTable[1].mode = "car"

\* ------------------------------------------------------------ claims C11-C20
ListStep(who, kind) == lastOp'.op = who /\ lastOp'.arg = kind

\* C11: in both listings a select answered with the code 42P01 empties the
\* displayed list and raises no notice; a select answered with another error
\* raises the "Data Load Error" notice and leaves the list as it was.
C11_MissingTableIsEmptyList ==
    [][/\ ListStep("fetch", "select") /\ lastOp'.out = "42P01"
            => dashTrips' = <<>> /\ notice' = NoNotice
       /\ ListStep("fetch", "selectError")
            => dashTrips' = dashTrips /\ notice'.title = "Data Load Error"
       /\ ListStep("research", "select") /\ lastOp'.out = "42P01"
            => rTrips' = <<>> /\ filteredTrips' = <<>> /\ notice' = NoNotice
       /\ ListStep("research", "selectError")
            => /\ rTrips' = rTrips /\ filteredTrips' = filteredTrips
               /\ notice'.title = "Data Load Error"]_vars

\* C11 witness: the user's list showed a trip, and a later select answered
\* with 42P01 has emptied it without a notice
C11_Witness ==
    /\ lastOp = Op("fetch", "select", "42P01")
    /\ Len(tripsTable) = 1
    /\ fetches = <<>>
    /\ dashTrips = <<>>
    /\ notice = NoNotice

\* the text a contains the text b, letter case ignored
ContainsIgnoringCase(a, b) ==
    LET ca == Chars(a)
        cb == Chars(b)
    IN  \E off \in 0..(Len(ca) - Len(cb)) :
            \A j \in 1..Len(cb) : LowerChar(ca[off + j]) = LowerChar(cb[j])
\* the trip passes both filters
PassesFilters(t) ==
    /\ \/ searchTerm = ""
       \/ ContainsIgnoringCase(t.origin, searchTerm)
       \/ ContainsIgnoringCase(t.destination, searchTerm)
    /\ modeFilter = "all" \/ t.mode = modeFilter
\* the positions of the trips of rTrips that pass both filters
Passing == {i \in DOMAIN rTrips : PassesFilters(rTrips[i])}

\* C12: in every state of the research dashboard the filtered set is the
\* trips of the fetched set, in fetched order, whose origin or destination
\* contains the search term (case ignored; any trip for the empty term) and
\* whose mode is the mode filter (any mode for "all"); the total shown is its
\* size.
C12_FilteredIsConjunction ==
    /\ Len(filteredTrips) = Cardinality(Passing)
    /\ \A i \in DOMAIN filteredTrips : PassesFilters(filteredTrips[i])
    /\ \A i, j \in DOMAIN filteredTrips : i < j => filteredTrips[i].id > filteredTrips[j].id
    /\ \A i \in DOMAIN filteredTrips : \E k \in Passing : rTrips[k] = filteredTrips[i]
    /\ Stats.totalTrips = Cardinality(Passing)

\* C12 witness: of three fetched trips one passes both filters, one only the
\* search term and one only the mode filter
C12_Witness ==
    /\ Len(rTrips) = 3
    /\ searchTerm = "ab"
    /\ modeFilter = "bus"
    /\ Len(filteredTrips) = 1
    /\ filteredTrips[1].destination = "aB"
    /\ \E i \in DOMAIN rTrips : rTrips[i].origin = "Ab" /\ rTrips[i].mode = "car"
    /\ \E i \in DOMAIN rTrips : rTrips[i].origin = "a,b" /\ rTrips[i].mode = "bus"

\* text split on the separator sep
Split(text, sep) ==
    LET at == {i \in DOMAIN text : text[i] = sep}
        n == Cardinality(at)
        Nth(k) == CHOOSE i \in at : Cardinality({j \in at : j < i}) = k - 1
    IN  [k \in 1..(n + 1) |->
            SubSeq(text, IF k = 1 THEN 1 ELSE Nth(k - 1) + 1,
                         IF k = n + 1 THEN Len(text) ELSE Nth(k) - 1)]
ReadCsv(text) ==
    LET lines == Split(text, "\n")
    IN  [i \in 1..Len(lines) |-> Split(lines[i], ",")]

\* C13 (as stated): the file written by an export, read back by splitting on
\* line breaks and commas, has the header row and one row of nine fields per
\* trip of the filtered set, in the header's order.
C13_CsvReadsBack ==
    [][ListStep("research", "export")
          => LET rows == ReadCsv(csv')
             IN  /\ Len(rows) = Len(filteredTrips) + 1
                 /\ \A i \in DOMAIN rows : Len(rows[i]) = 9
                 /\ rows[1] = [k \in 1..9 |-> Chars(CsvHeader[k])]
                 /\ \A i \in DOMAIN filteredTrips :
                       /\ rows[i + 1][4] = Chars(filteredTrips[i].origin)
                       /\ rows[i + 1][5] = Chars(filteredTrips[i].destination)
                       /\ rows[i + 1][6] = Chars(filteredTrips[i].mode)]_vars

\* the number of trips of ft whose mode is m, and the first of them
CountOf(ft, m) == Cardinality({i \in DOMAIN ft : ft[i].mode = m})
FirstOf(ft, m) == CHOOSE i \in DOMAIN ft : ft[i].mode = m /\ \A j \in 1..(i - 1) : ft[j].mode # m

\* C14: the statistics shown are the size of the filtered set, the number of
\* distinct user ids in it, and a mode of maximal count, the one seen first
\* among those of maximal count ("N/A" for the empty set).
C14_StatsOverFiltered ==
    /\ Stats.totalTrips = Len(filteredTrips)
    /\ Stats.uniqueUsers = Cardinality({u \in Users : \E i \in DOMAIN filteredTrips :
                                           filteredTrips[i].user_id = u})
    /\ filteredTrips = <<>> => Stats.topMode = "N/A"
    /\ filteredTrips # <<>> =>
         \E m \in {filteredTrips[i].mode : i \in DOMAIN filteredTrips} :
            /\ Stats.topMode = m \o " (" \o ToString(CountOf(filteredTrips, m)) \o " trips)"
            /\ \A m2 \in {filteredTrips[i].mode : i \in DOMAIN filteredTrips} :
                  /\ CountOf(filteredTrips, m2) <= CountOf(filteredTrips, m)
                  /\ m2 # m /\ CountOf(filteredTrips, m2) = CountOf(filteredTrips, m)
                       => FirstOf(filteredTrips, m) < FirstOf(filteredTrips, m2)

\* C14 witness: two modes tie and the one listed first is shown; it is not
\* the mode of the oldest trip
C14_Witness ==
    /\ Len(filteredTrips) = 2
    /\ Len(rTrips) = 3
    /\ filteredTrips[1].mode = "bus"
    /\ filteredTrips[2].mode = "car"
    /\ Stats = [totalTrips |-> 2, uniqueUsers |-> 1, topMode |-> "bus (1 trips)"]

C16_UnconfirmedStaysOut ==
    [][/\ lastOp' = Op("signup", "signUp", "unconfirmed")
            => session' = session /\ user' = user /\ NewScreen = Screen
       /\ lastOp' = Op("signup", "insertProfile", "unconfirmed")
            => /\ sessionQuery' = sessionQuery /\ isLoading' = isLoading
               /\ session' = session /\ user' = user
               /\ NewScreen = Screen
               /\ profiles'[signupPc.uid] \in {profiles[signupPc.uid], "false"}
               /\ notice'.description = "Please check your email to verify your account."
       /\ Screen \in {"Unauthenticated", "Loading"}
          /\ NewScreen \notin {"Unauthenticated", "Loading"}
            => session' # NoUser /\ user' = session']_vars

\* C16 witness: u2's account was created unconfirmed and its profile row
\* stored with consent false; nobody is signed in and the sign-in page is
\* still shown
C16_Witness ==
    /\ lastOp = Op("signup", "insertProfile", "unconfirmed")
    /\ profiles["u2"] = "false"
    /\ session = NoUser
    /\ user = NoUser
    /\ sessionQuery = "none"
    /\ Screen = "Unauthenticated"

\* C17: a signOut that succeeds reloads the page: the user is null, the
\* consent flag false, the view 'user', the page loading with its startup
\* getSession and no session, no flow of the old page is left, and until a
\* screen other than Loading is rendered that screen can only be
\* Unauthenticated.  A signOut that fails raises the "Logout Error" notice
\* and changes neither the page's state nor the screen.
Reloaded ==
    /\ session = NoUser /\ user = NoUser
    /\ ~hasConsented /\ currentView = "user"
    /\ isLoading /\ sessionQuery = "startup"
    /\ ConsentInFlight = 0 /\ logouts = 0
    /\ loginPc = "idle" /\ signupPc = SignupIdle
C19_NoUserNoConsent ==
    Screen # "Loading" /\ user = NoUser => ~hasConsented

\* C18 (as stated): a request that has an entry is answered with it and does
\* not go to the network; the cache is written only with the successful
\* response of a GET; an entry, once stored, is never replaced or removed.
C18_CacheFirstNeverReplaced ==
    [][/\ lastOp'.op = "sw" /\ lastOp'.arg \in {"toNetwork", "fromCache"}
            => IF SwMatchIn(swCache, lastOp'.out.req) # NoResponse
               THEN /\ lastOp'.arg = "fromCache"
                    /\ lastOp'.out.resp = swCache[lastOp'.out.req.url]
                    /\ Len(swFlows') < Len(swFlows)
               ELSE lastOp'.arg = "toNetwork"
       /\ \A url \in SwUrls :
            swCache'[url] # swCache[url]
            => /\ lastOp'.arg = "put"
               /\ lastOp'.out.req = [method |-> "GET", url |-> url]
               /\ lastOp'.out.resp.ok
               /\ swCache'[url] = lastOp'.out.resp
       /\ \A url \in SwUrls :
            swCache[url] # NoResponse => swCache'[url] = swCache[url]]_vars

\* C20 (as stated): when a refresh of the user's list completes without
\* error, with the worker in front of the page's requests, the list shows
\* every trip of the user that has been inserted, the newest included.
C20_RefreshShowsNewTrip ==
    [][ListStep("fetch", "select") /\ lastOp'.out = "ok"
        => \A n \in DOMAIN tripsTable :
              tripsTable[n].user_id = "u1"
              => \E j \in DOMAIN dashTrips' : dashTrips'[j] = n]_vars

\* ------------------------------------------------------------ claims C21-C27
\* C21 (as stated): once every listing fetch of the user dashboard has
\* ended, the displayed list is the result of the fetch issued last (when
\* that fetch was answered without an error), whatever the order in which
\* the responses arrived.
C21_LastIssuedWins ==
    (/\ Len(fetches) >= 2
     /\ \A k \in DOMAIN fetches : fetches[k].pc = "done"
     /\ fetches[Len(fetches)].out \in {"ok", "42P01"})
    => dashTrips = fetches[Len(fetches)].rows

\* C22 (as stated): while a flow started from a control is in flight, that
\* control, where it is rendered, is disabled by its busy flag, so no
\* control has two submissions in flight: the trip form's submit, the
\* consent page's continue, and the sign-in / sign-up forms' shared flag.
C22_OneSubmissionPerControl ==
    /\ showForm /\ tripFlows # <<>> => tripBusy
    /\ Len(tripFlows) <= 1
    /\ Screen = "ConsentPending" /\ ConsentInFlight > 0 => consentBusy
    /\ ConsentInFlight <= 1
    /\ Screen = "Unauthenticated" /\ loginPc # "idle" => authBusy

\* C23 (as stated): every busy flag that a flow raises is lowered again once
\* the flow's backend calls have completed, whatever their outcome: the
\* page's isLoading (startup and auth-success), the AuthPage's and the
\* ConsentPage's isLoading.
C23_BusyFlagsLowered ==
    /\ isLoading ~> ~isLoading
    /\ authBusy ~> ~authBusy
    /\ consentBusy ~> ~consentBusy

\* the step is the handling (or not) of an error thrown by the backend client
ThrowStep == lastOp'.arg = "throw" \/ lastOp'.out = "throw"

\* C24 (as stated): an error thrown by the backend client is caught in its
\* flow and shown as a notice, in every flow but the consent recording,
\* whose thrown errors raise no notice.
C24_ThrownErrorsSurfaced ==
    [][ThrowStep => IF lastOp'.op = "consent"
                    THEN notice' = NoNotice
                    ELSE notice' # NoNotice]_vars

\* the notice's text contains the backend's message as it is
CarriesVerbatim(description, msg) == Includes(Chars(description), Chars(msg))

\* C25 (as stated): a backend error value other than the code 42P01, in
\* sign-in, sign-up, the trip insert, the two listings and sign-out, raises
\* a notice that carries the backend's message verbatim; the code 42P01 of
\* a listing raises no notice.
C25_ErrorMessageVerbatim ==
    [][/\ lastOp'.op \in {"login", "signup", "logout"} /\ lastOp'.arg = "error"
            => CarriesVerbatim(notice'.description, lastOp'.out)
       /\ lastOp'.op \in {"trip", "tripOrphan"} /\ lastOp'.arg = "insertError"
            => CarriesVerbatim(notice'.description, lastOp'.out)
       /\ lastOp'.op \in {"fetch", "research"} /\ lastOp'.arg = "selectError"
            => CarriesVerbatim(notice'.description, lastOp'.out)
       /\ lastOp'.op \in {"fetch", "research"} /\ lastOp'.arg = "select" /\ lastOp'.out = "42P01"
            => notice' = NoNotice]_vars

\* the startup getSession is in flight and the page shows Loading
StartupLoading == isLoading /\ sessionQuery = "startup"

\* C26 (as stated): the page starts in Loading with one session query in
\* flight, no step issues another startup query (only the reload after a
\* sign-out starts the page again); when the query completes the page
\* leaves Loading for Unauthenticated without a session and for
\* ConsentPending with one; no step leads from the startup Loading to a
\* dashboard, and an auth-change notification during Loading leaves the
\* page on Loading.
C26_StartupLoading ==
    /\ isLoading = TRUE
    /\ sessionQuery = "startup"
    /\ [][/\ sessionQuery' = "startup"
               => sessionQuery = "startup" \/ lastOp' = Op("logout", "ok", Screen)
          /\ StartupLoading /\ lastOp'.op = "getSession"
               => /\ lastOp'.arg = "startup"
                  /\ sessionQuery' = "none"
                  /\ NewScreen = IF session = NoUser THEN "Unauthenticated"
                                 ELSE "ConsentPending"
          /\ StartupLoading => NewScreen \notin Dashboards
          /\ isLoading /\ lastOp'.op = "authChange" => NewScreen = "Loading"]_vars

\* C27: in every dashboard state both buttons of the Navigation can be
\* pressed (the only condition is that a dashboard is shown: a user and the
\* consent); a toggle sets currentView to the chosen view and leaves user
\* and hasConsented as they were; no step of the page other than a toggle
\* (auth-change notification, session query, sign-in, consent) changes
\* currentView, apart from the reload that starts the page again.
C27_FreeToggle ==
    [][/\ Screen \in Dashboards => \A v \in Views : ENABLED SetView(v)
       /\ lastOp'.op = "setView"
            => /\ Screen \in Dashboards
               /\ currentView' = lastOp'.arg
               /\ user' = user /\ hasConsented' = hasConsented
               /\ session' = session /\ isLoading' = isLoading
       /\ lastOp'.op \notin {"setView", "logout"} => currentView' = currentView
       /\ lastOp'.op = "logout" /\ currentView' # currentView
            => lastOp'.arg = "ok" /\ NewScreen = "Loading"]_vars

\* C27 witness: u2, consented and on the research dashboard, has just
\* pressed "User View"
C27_Witness ==
    /\ lastOp = Op("setView", "user", "ResearchDashboard")
    /\ Screen = "UserDashboard"
    /\ user = "u2"
    /\ hasConsented

====
